---- MODULE Spec2Model ----
(***************************************************************************)
(* A model of nsgt_torch/cq.py: the NSGT transform object (construction,  *)
(* forward, backward, _apply), the NSGTBase configuration holder and the  *)
(* TorchNSGT / TorchINSGT chunking wrappers.                               *)
(*                                                                         *)
(* Python lists are sequences (Python index i is sequence index i + 1).    *)
(* An optional integer is <<>> (None) or <<n>>.  An object is a record     *)
(* whose DOMAIN is the set of attributes assigned so far.  An exception    *)
(* is a record [type |-> ...]; NoErr is "no exception".                    *)
(***************************************************************************)
EXTENDS Integers, Sequences, FiniteSets, TLC

\* ------------------------------------------------------------- bounds
MaxBands == 8      \* band counts 1..MaxBands of the call-level specification
MaxBandsM == 4     \* band counts of the specification enumerating all windows
MaxWin == 2        \* window lengths and coefficient lengths 1..MaxWin
MaxLs == 2         \* signal lengths up to MaxLs
NSignals == 2      \* distinct input signals
MaxBatch == 2      \* nb_samples of a TorchNSGT input
MaxChannels == 2   \* nb_channels of a TorchNSGT input
MaxT == 5          \* nb_timesteps of a TorchNSGT input
MaxN == 3          \* chunk lengths chunk_N of the TorchNSGT specification

Devices == {"cpu", "cuda"}
Signals == 1..NSignals

\* ------------------------------------------------------------ helpers
Min(a, b) == IF a <= b THEN a ELSE b
Max(a, b) == IF a >= b THEN a ELSE b

RECURSIVE SeqMax(_)
\* Python max() / ndarray.max() of a non-empty sequence
SeqMax(s) == IF Len(s) = 1 THEN s[1] ELSE Max(s[1], SeqMax(Tail(s)))

\* int(ceil(float(a)/b)) for positive b
CeilDiv(a, b) == (a + b - 1) \div b

None == << >>
Some(n) == << n >>

\* Python's resolution of a slice bound against a length n
SliceBound(b, n) == IF b < 0 THEN Max(b + n, 0) ELSE Min(b, n)

\* seq[start:stop] for integer start and stop
PySlice(seq, start, stop) ==
    LET n  == Len(seq)
        lo == SliceBound(start, n)
        hi == SliceBound(stop, n)
    IN  IF lo >= hi THEN << >> ELSE SubSeq(seq, lo + 1, hi)

\* seq[sl] for a slice object sl = [start, stop], stop possibly None
ApplySlice(seq, sl) ==
    IF sl.stop = None THEN PySlice(seq, sl.start, Len(seq))
    ELSE PySlice(seq, sl.start, sl.stop[1])

NoErr == [type |-> "none"]
Raise(t) == [type |-> t]

\* ------------------------------------------------- window builder output
\* nsgfwin's result for a scale: per band a window length len(g[k]) and a
\* coefficient length M[k].
AllWindows(L) ==
    { [glen |-> gl, M |-> m] : gl \in [1..L -> 1..MaxWin], m \in [1..L -> 1..MaxWin] }

SampleWindows(L) ==
    { [glen |-> [k \in 1..L |-> 1], M |-> [k \in 1..L |-> 1]],
      [glen |-> [k \in 1..L |-> k], M |-> [k \in 1..L |-> k]] }

\* ------------------------------------------------------ NSGT.__init__
ChecksPassLoose(fs, Ls, reducedform) ==
    fs >= 0 /\ Ls > 0 /\ 0 <= reducedform /\ reducedform <= 2

\* the three asserts that open the constructor
ChecksPass(fs, Ls, reducedform) ==
    fs > 0 /\ Ls > 0 /\ 0 <= reducedform /\ reducedform <= 2

\* sl: the active band slice
ActiveSlice(real, reducedform, L) ==
    IF real THEN [start |-> reducedform, stop |-> Some(L \div 2 + 1 - reducedform)]
    ELSE [start |-> 0, stop |-> None]

\* self.fbins_actual = sl.stop
FbinsActual(sl) == sl.stop

\* the generator of line 44, as a sequence
CoefLens(M, glen, sl) ==
    LET ms == ApplySlice(M, sl)
        gs == ApplySlice(glen, sl)
    IN  [i \in 1..Min(Len(ms), Len(gs)) |-> CeilDiv(gs[i], ms[i]) * ms[i]]

\* the range whose maximum every M[k] is overridden to, in matrix form
MatrixRange(M, reducedform) ==
    IF reducedform # 0
    THEN PySlice(M, reducedform, Len(M) \div 2 + 1 - reducedform)
    ELSE M

Channelize(multichannel) == IF multichannel THEN "identity" ELSE "tuple"
Unchannelize(multichannel) == IF multichannel THEN "identity" ELSE "first"

\* calcwinrange: one placement per window, and the padded length nn >= Ls
CalcWinRange(glen, Ls, device) ==
    [wins |-> [k \in 1..Len(glen) |-> [band |-> k - 1, dev |-> device]],
     nn   |-> Max(Ls, SeqMax(glen))]

\* nsdual: one dual window per window, on the construction device
NsDual(g, M, device) ==
    [k \in 1..Len(g) |-> [len |-> g[k].len, M |-> M[k], dev |-> device]]

\* The constructor, whole: the exception it ends with (or NoErr), the
\* attributes it has assigned by then, and the arrays it has built.
NSGT_init(a) ==
    IF ~ChecksPass(a.fs, a.Ls, a.reducedform)
    THEN [err |-> Raise("AssertionError"), self |-> << >>, built |-> {}]
    ELSE
    LET L    == Len(a.win.glen)
        g    == [k \in 1..L |-> [len |-> a.win.glen[k], dev |-> a.device]]
        sl   == ActiveSlice(a.real, a.reducedform, L)
        cl   == CoefLens(a.win.M, a.win.glen, sl)
        rm   == MatrixRange(a.win.M, a.reducedform)
    IN  IF Len(cl) = 0
        THEN [err   |-> Raise("ValueError"),
              self  |-> [scale |-> a.win, fs |-> a.fs, Ls |-> a.Ls, real |-> a.real,
                         reducedform |-> a.reducedform, matrixform |-> a.matrixform,
                         device |-> a.device, g |-> g, M |-> a.win.M,
                         fbins_actual |-> FbinsActual(sl)],
              built |-> {"windows"}]
        ELSE IF a.matrixform /\ Len(rm) = 0
        THEN [err   |-> Raise("EmptyReduction"),
              self  |-> [scale |-> a.win, fs |-> a.fs, Ls |-> a.Ls, real |-> a.real,
                         reducedform |-> a.reducedform, matrixform |-> a.matrixform,
                         device |-> a.device, g |-> g, M |-> a.win.M,
                         fbins_actual |-> FbinsActual(sl), ncoefs |-> SeqMax(cl)],
              built |-> {"windows"}]
        ELSE
        LET M2 == IF a.matrixform THEN [k \in 1..L |-> SeqMax(rm)] ELSE a.win.M
            wr == CalcWinRange(a.win.glen, a.Ls, a.device)
        IN  [err   |-> NoErr,
             self  |-> [scale |-> a.win, fs |-> a.fs, Ls |-> a.Ls, real |-> a.real,
                        reducedform |-> a.reducedform, matrixform |-> a.matrixform,
                        device |-> a.device, g |-> g, M |-> M2,
                        fbins_actual |-> FbinsActual(sl), ncoefs |-> SeqMax(cl),
                        channelize |-> Channelize(a.multichannel),
                        unchannelize |-> Unchannelize(a.multichannel),
                        wins |-> wr.wins, nn |-> wr.nn,
                        gd |-> NsDual(g, M2, a.device)],
             built |-> {"windows", "placements", "duals"}]

\* ------------------------------------------------------ Python values
Sig(x) == [tag |-> "signal", x |-> x]
Tup(v) == [tag |-> "tuple", items |-> << v >>]
List(items) == [tag |-> "list", items |-> items]
Raised(t) == [tag |-> "raised", type |-> t]
NoValue == [tag |-> "absent"]

IsSequence(v) == v.tag \in {"list", "tuple"}

\* v[0]: the first item of a list or tuple, the first slice of a tensor
Index0(v) ==
    IF IsSequence(v)
    THEN (IF Len(v.items) = 0 THEN Raised("IndexError") ELSE v.items[1])
    ELSE [tag |-> "slice0", of |-> v]

\* ----------------------------------------------------------- engines
\* Python band numbers of the active band set, in order
ActiveBands(self) ==
    ApplySlice([k \in 1..Len(self.g) |-> k - 1],
               ActiveSlice(self.real, self.reducedform, Len(self.g)))

\* The coefficient bundle of input f: ragged, one entry per active band;
\* fixed-matrix, a list holding the one fixed tensor (TorchNSGT.forward
\* enumerates the result and returns C[0] as the matrix).
Bundle(self, f) ==
    LET act == ActiveBands(self)
    IN  IF self.matrixform
        THEN List(<< [tag |-> "fixed", n |-> Len(act), ncoefs |-> self.M[1], of |-> f] >>)
        ELSE List([i \in 1..Len(act) |->
                     [tag |-> "band", k |-> act[i], M |-> self.M[act[i] + 1], of |-> f]])

\* nsgtf (self.fwd): the forward engine on the value handed to it.  A
\* tensor is transformed; a tuple holding a tensor is either refused or
\* taken as a batch, as the engine (tuplesOk) decides.
nsgtf(f, self, tuplesOk) ==
    IF f.tag = "signal" \/ (f.tag = "tuple" /\ tuplesOk)
    THEN Bundle(self, f)
    ELSE Raised("TypeError")

\* nsigtf (self.bwd): the inverse engine.  It reconstructs the input of
\* the bundle it is handed when that is the complete bundle of this
\* configuration, and refuses anything else.
nsigtf(c, self, tuplesOk) ==
    IF ~(c.tag = "list" \/ (c.tag = "tuple" /\ tuplesOk)) THEN Raised("TypeError")
    ELSE IF Len(c.items) = 0 THEN Raised("ShapeMismatch")
    ELSE IF c.items[1].tag \notin {"band", "fixed"} THEN Raised("ShapeMismatch")
    ELSE IF c.items = Bundle(self, c.items[1].of).items THEN c.items[1].of
    ELSE Raised("ShapeMismatch")

ApplyChannelize(self, v) == IF self.channelize = "identity" THEN v ELSE Tup(v)

ApplyUnchannelize(self, v) ==
    IF v.tag = "raised" THEN v
    ELSE IF self.unchannelize = "identity" THEN v ELSE Index0(v)

NSGT_forward_trims(self, s, tuplesOk) ==
    LET h == ApplyChannelize(self, s)
    IN  [self   |-> [self EXCEPT !.g = ApplySlice(self.g,
                        ActiveSlice(self.real, self.reducedform, Len(self.g)))],
         handed |-> h,
         ret    |-> ApplyUnchannelize(self, nsgtf(h, self, tuplesOk))]

\* NSGT.forward: the object after the call, the value handed to the
\* engine, and the value returned
NSGT_forward(self, s, tuplesOk) ==
    LET h == ApplyChannelize(self, s)
    IN  [self   |-> self,
         handed |-> h,
         ret    |-> ApplyUnchannelize(self, nsgtf(h, self, tuplesOk))]

\* NSGT.backward
NSGT_backward(self, c, tuplesOk) ==
    LET h == ApplyChannelize(self, c)
    IN  [self   |-> self,
         handed |-> h,
         ret    |-> ApplyUnchannelize(self, nsigtf(h, self, tuplesOk))]

MoveAll(arr, d) == [k \in 1..Len(arr) |-> [arr[k] EXCEPT !.dev = d]]

\* NSGT._apply(fn), fn relocating a tensor to device d: wins and g are
\* relocated, the device is read back from g[0]
NSGT_apply(self, d) ==
    LET g2 == MoveAll(self.g, d)
    IN  [self EXCEPT !.wins = MoveAll(self.wins, d), !.g = g2, !.device = g2[1].dev]

\* --------------------------------------------------- NSGTBase.__init__
\* the message of the error for a scale name SCALES_BY_NAME does not map
UnsupportedScaleMsgWrongHint(scale) ==
    [text |-> "unsupported frequency scale", scale |-> scale,
     hint |-> IF scale = "octave" THEN "use cqlog instead of oct" ELSE ""]

UnsupportedScaleMsg(scale) ==
    [text |-> "unsupported frequency scale", scale |-> scale,
     hint |-> IF scale = "oct" THEN "use cqlog instead of oct" ELSE ""]

\* the attributes the class NSGTBase defines
NSGTBaseClassAttrs == {"__init__", "max_bins", "_apply"}

\* raise ValueError(f'{matrixform} is not one of the allowed values:
\* {NSGTBase.allowed_matrix_forms}'): the message is evaluated first, and
\* looks the attribute allowed_matrix_forms up on the class
NotAllowedError(matrixform) ==
    IF "allowed_matrix_forms" \in NSGTBaseClassAttrs
    THEN [type |-> "ValueError",
          msg  |-> [text |-> "is not one of the allowed values", value |-> matrixform]]
    ELSE Raise("AttributeError")

ScaleArgs(scale, fmin, fmax, fbins, gamma) ==
    IF scale = "vqlog" THEN << fmin, fmax, fbins, gamma >> ELSE << fmin, fmax, fbins >>

\* The constructor, whole: the exception it ends with and the attributes
\* assigned by then.  b.win is what the window builder yields for the
\* scale object.
NSGTBase_init(b, scales, forms) ==
    IF b.scale \notin scales
    THEN [err  |-> [type |-> "ValueError", msg |-> UnsupportedScaleMsg(b.scale)],
          self |-> [fbins |-> b.fbins, fmin |-> b.fmin, gamma |-> b.gamma,
                    fmax |-> b.fmax, scl |-> None]]
    ELSE
    LET scl == [fn |-> b.scale,
                args |-> ScaleArgs(b.scale, b.fmin, b.fmax, b.fbins, b.gamma)]
    IN  IF b.matrixform \notin forms
        THEN [err  |-> NotAllowedError(b.matrixform),
              self |-> [fbins |-> b.fbins, fmin |-> b.fmin, gamma |-> b.gamma,
                        fmax |-> b.fmax, scl |-> Some(scl), device |-> b.device,
                        fs |-> b.fs]]
        ELSE
        LET r == NSGT_init([win |-> b.win, fs |-> b.fs, Ls |-> b.chunk_N,
                            real |-> TRUE, matrixform |-> (b.matrixform = "zeropad"),
                            reducedform |-> 0, multichannel |-> TRUE,
                            device |-> b.device])
        IN  IF r.err # NoErr
            THEN [err  |-> r.err,
                  self |-> [fbins |-> b.fbins, fmin |-> b.fmin, gamma |-> b.gamma,
                            fmax |-> b.fmax, scl |-> Some(scl), device |-> b.device,
                            fs |-> b.fs, matrixform |-> b.matrixform,
                            chunk_N |-> b.chunk_N, nsgt |-> None]]
            ELSE [err  |-> NoErr,
                  self |-> [fbins |-> b.fbins, fmin |-> b.fmin, gamma |-> b.gamma,
                            fmax |-> b.fmax, scl |-> Some(scl), device |-> b.device,
                            fs |-> b.fs, matrixform |-> b.matrixform,
                            chunk_N |-> b.chunk_N, nsgt |-> Some(r.self),
                            M |-> r.self.ncoefs,
                            fbins_actual |-> r.self.fbins_actual]]

\* ------------------------------------------------------------ tensors
\* A real tensor is [tag, shape, data], data in row-major order.  The
\* sample x[s, c, t] of an input is the label << s, c, t >> (from 1); a
\* padded zero is Zero.
RECURSIVE Product(_)
Product(s) == IF Len(s) = 0 THEN 1 ELSE s[1] * Product(Tail(s))

Zero == << 0, 0, 0 >>

Tensor(shape, data) == [tag |-> "signal", shape |-> shape, data |-> data]

InputTensor(S, C, T) ==
    Tensor(<< S, C, T >>,
           [i \in 1..(S * C * T) |->
              << ((i - 1) \div (C * T)) + 1, (((i - 1) \div T) % C) + 1, ((i - 1) % T) + 1 >>])

\* torch.nn.functional.pad(x, (0, n)): n zeros after the last axis
PadLast(x, n) ==
    LET T  == x.shape[Len(x.shape)]
        T2 == T + n
    IN  Tensor([x.shape EXCEPT ![Len(x.shape)] = T2],
               [i \in 1..((Len(x.data) \div T) * T2) |->
                  IF ((i - 1) % T2) < T
                  THEN x.data[((i - 1) \div T2) * T + ((i - 1) % T2) + 1]
                  ELSE Zero])

\* x.reshape(-1, *rest) and x.view(-1, *rest)
ViewAs(x, rest) ==
    IF (Len(x.data) % Product(rest)) # 0 THEN Raised("RuntimeError")
    ELSE Tensor(<< Len(x.data) \div Product(rest) >> \o rest, x.data)

\* ------------------------------------------------- TorchNSGT.forward
\* The complex tensor of one entry of the engine's list, for `rows` rows
BandTensor(e, rows) ==
    [tag |-> "coef", band |-> e,
     shape |-> IF e.tag = "fixed" THEN << rows, e.n, e.ncoefs >> ELSE << rows, 1, e.M >>]

\* torch.view_as_real(nsgt_f).view((-1, nb_channels) + shape[-3:])
UnpackBatch(c, nb_channels) ==
    LET real == c.shape \o << 2 >>
        last == SubSeq(real, Len(real) - 2, Len(real))
    IN  IF (Product(real) % (nb_channels * Product(last))) # 0 THEN Raised("RuntimeError")
        ELSE [c EXCEPT !.shape = << Product(real) \div (nb_channels * Product(last)),
                                    nb_channels >> \o last]

\* complex_2_magphase, interpolate and magphase_2_complex: every entry is
\* resampled to one common number of time frames, its shape recorded
Interpolate(C) ==
    LET frames == SeqMax([i \in 1..Len(C) |-> C[i].shape[4]])
    IN  [items  |-> [i \in 1..Len(C) |-> [C[i] EXCEPT !.shape[4] = frames]],
         shapes |-> [i \in 1..Len(C) |-> C[i].shape]]

\* TorchNSGT.forward(x), whole: the rows handed to the transform and the
\* value returned (the first element of the returned pair, and the second)
TorchNSGT_forward(x, b, tok) ==
    LET N   == b.chunk_N
        nbc == x.shape[2]
        T   == x.shape[3]
        x1  == IF T > N
               THEN ViewAs(PadLast(x, N * (1 + (T \div N)) - T), << nbc, N >>)
               ELSE x
        x2  == ViewAs(x1, << N >>)
    IN  IF x2.tag = "raised" THEN [rows |-> x2, ret |-> x2, shapes |-> None]
        ELSE
        LET c  == NSGT_forward(b.nsgt[1], x2, tok).ret
            C  == [i \in 1..Len(c.items) |->
                     UnpackBatch(BandTensor(c.items[i], x2.shape[1]), nbc)]
        IN  IF \E i \in 1..Len(C) : C[i].tag = "raised"
            THEN [rows |-> x2, ret |-> Raised("RuntimeError"), shapes |-> None]
            ELSE IF b.matrixform = "ragged"
            THEN [rows |-> x2, ret |-> List(C), shapes |-> None]
            ELSE IF b.matrixform = "zeropad"
            THEN [rows |-> x2, ret |-> C[1], shapes |-> None]
            ELSE [rows |-> x2, ret |-> Interpolate(C).items[1],
                  shapes |-> Interpolate(C).shapes]

\* ------------------------------------------------ TorchINSGT.forward
\* X_list[0].shape
FirstShape(X) == IF X.tag = "list" THEN X.items[1].shape ELSE Tail(X.shape)

\* TorchINSGT.forward(X_list, length), whole.  The first statement unpacks
\* X_list[0].shape into three names, which takes a shape of exactly three
\* dimensions; such an X then has two dimensions as a complex tensor, and
\* X.shape[2] in the first pass of the loop is out of range.  No path
\* reaches the call of backward.
TorchINSGT_forward(X, length, b) ==
    IF Len(FirstShape(X)) # 3 THEN Raised("ValueError")
    ELSE IF FirstShape(X)[3] # 2 THEN Raised("RuntimeError")
    ELSE Raised("IndexError")

\* ------------------------------------------------------------- state
VARIABLES
    args,      \* the arguments of the NSGT constructor call
    nsgt,      \* the NSGT object: its attributes
    err,       \* the exception the constructor ended with
    built,     \* the derived arrays the constructor built
    tuplesOk,  \* whether the engines take a tuple of tensors as a batch
    op,        \* the last operation
    sig,       \* the signal of the last forward call
    handed,    \* the value the last call handed to its engine
    coef,      \* what the last forward call returned
    rec,       \* what backward returned for coef
    ctx,       \* the device of the last _apply
    registry,  \* the names SCALES_BY_NAME maps
    allowed,   \* ALLOWED_MATRIX_FORMS
    bargs,     \* the arguments of the NSGTBase constructor call
    base,      \* the NSGTBase object: its attributes
    berr,      \* the exception the NSGTBase constructor ended with
    bop,       \* the last operation on the NSGTBase
    tin,       \* the input of the last TorchNSGT.forward call
    trows,     \* the rows that call handed to the transform
    tout,      \* what that call returned
    ty,        \* what TorchINSGT.forward returned for it
    top        \* the last operation on the wrappers

nsgtVars == << args, nsgt, err, built, tuplesOk, op, sig, handed, coef, rec, ctx >>
baseVars == << registry, allowed, bargs, base, berr, bop >>
torchVars == << tin, trows, tout, ty, top >>
vars == << nsgtVars, baseVars, torchVars >>

FsDomain == {-44100, 0, 44100}
LsDomain == -1..MaxLs
ReducedformDomain == -1..3

ArgsOver(wins) ==
    { [win |-> w, fs |-> fs, Ls |-> Ls, real |-> re, matrixform |-> mf,
       reducedform |-> rf, multichannel |-> mc, device |-> dv] :
         w \in wins, fs \in FsDomain, Ls \in LsDomain, re \in BOOLEAN,
         mf \in BOOLEAN, rf \in ReducedformDomain, mc \in BOOLEAN, dv \in Devices }

ArgsCalls == ArgsOver(UNION { SampleWindows(L) : L \in 1..MaxBands })

\* every window builder output of a band count, under valid fs and Ls
ArgsWindows(L) ==
    { [win |-> w, fs |-> 44100, Ls |-> 1, real |-> re, matrixform |-> mf,
       reducedform |-> rf, multichannel |-> TRUE, device |-> "cpu"] :
         w \in AllWindows(L), re \in BOOLEAN, mf \in BOOLEAN, rf \in 0..2 }

NoArgs == [fs |-> 0]

InitNSGT ==
    /\ args = NoArgs
    /\ nsgt = << >>
    /\ err = NoErr
    /\ built = {}
    /\ tuplesOk \in BOOLEAN
    /\ op = "none"
    /\ sig = NoValue
    /\ handed = NoValue
    /\ coef = NoValue
    /\ rec = NoValue
    /\ ctx = "none"

Constructed == op # "none" /\ err = NoErr

\* NSGT(scale, fs, Ls, ...)
Construct(a) ==
    /\ op = "none"
    /\ LET r == NSGT_init(a)
       IN  /\ nsgt' = r.self
           /\ err' = r.err
           /\ built' = r.built
    /\ args' = a
    /\ op' = "init"
    /\ UNCHANGED << tuplesOk, sig, handed, coef, rec, ctx, baseVars, torchVars >>

\* nsgt.forward(s)
Forward(x) ==
    /\ Constructed
    /\ LET r == NSGT_forward(nsgt, Sig(x), tuplesOk)
       IN  /\ nsgt' = r.self
           /\ handed' = r.handed
           /\ coef' = r.ret
    /\ sig' = Sig(x)
    /\ rec' = NoValue
    /\ op' = "forward"
    /\ UNCHANGED << args, err, built, tuplesOk, ctx, baseVars, torchVars >>

\* nsgt.backward(c), c the value the last forward call returned
Backward ==
    /\ Constructed
    /\ coef.tag \notin {"absent", "raised"}
    /\ LET r == NSGT_backward(nsgt, coef, tuplesOk)
       IN  /\ nsgt' = r.self
           /\ handed' = r.handed
           /\ rec' = r.ret
    /\ op' = "backward"
    /\ UNCHANGED << args, err, built, tuplesOk, sig, coef, ctx, baseVars, torchVars >>

\* nsgt._apply(fn)
Apply(d) ==
    /\ Constructed
    /\ nsgt' = NSGT_apply(nsgt, d)
    /\ ctx' = d
    /\ op' = "apply"
    /\ UNCHANGED << args, err, built, tuplesOk, sig, handed, coef, rec, baseVars, torchVars >>

\* one object is constructed per behaviour
ConstructCalls == op = "none" /\ \E a \in ArgsCalls : Construct(a)

ConstructWindows ==
    op = "none" /\ \E L \in 1..MaxBandsM : \E a \in ArgsWindows(L) : Construct(a)

Next ==
    \/ ConstructCalls
    \/ \E x \in Signals : Forward(x)
    \/ Backward
    \/ \E d \in Devices : Apply(d)

NextWindows == ConstructWindows

\* -------------------------------------------------- NSGTBase: state
\* SCALES_BY_NAME and ALLOWED_MATRIX_FORMS are imported; the constructor
\* names 'vqlog', 'ragged' and 'zeropad', and hints that 'oct' was renamed.
Registries == { {"cqlog", "vqlog", "mel"}, {"cqlog", "vqlog", "mel", "oct"} }
AllowedFamilies == { {"ragged", "zeropad"}, {"ragged", "zeropad", "nearest"} }

ScaleInputs == {"cqlog", "vqlog", "oct", "octave"}
MatrixformInputs == {"ragged", "zeropad", "nearest", "dense"}

ArgsBase ==
    { [scale |-> sc, fbins |-> 12, fmin |-> 33, chunk_N |-> n, fmax |-> 22050,
       gamma |-> 25, matrixform |-> mf, fs |-> fs, device |-> dv, win |-> w] :
         sc \in ScaleInputs, n \in 0..MaxLs, mf \in MatrixformInputs,
         fs \in {0, 44100}, dv \in Devices,
         w \in UNION { SampleWindows(L) : L \in 1..MaxBandsM } }

BaseIdle ==
    /\ registry = {}
    /\ allowed = {}
    /\ bargs = NoArgs
    /\ base = << >>
    /\ berr = NoErr
    /\ bop = "none"

TorchIdle ==
    /\ tin = NoValue
    /\ trows = NoValue
    /\ tout = NoValue
    /\ ty = NoValue
    /\ top = "none"

Init == InitNSGT /\ BaseIdle /\ TorchIdle

Spec == Init /\ [][Next]_vars

SpecWindows == Init /\ [][NextWindows]_vars

InitBase ==
    /\ InitNSGT
    /\ tuplesOk = TRUE
    /\ registry \in Registries
    /\ allowed \in AllowedFamilies
    /\ bargs = NoArgs
    /\ base = << >>
    /\ berr = NoErr
    /\ bop = "none"
    /\ TorchIdle

\* NSGTBase(scale, fbins, fmin, chunk_N, ...)
ConstructBase ==
    /\ bop = "none"
    /\ \E b \in ArgsBase :
          /\ LET r == NSGTBase_init(b, registry, allowed)
             IN  base' = r.self /\ berr' = r.err
          /\ bargs' = b
    /\ bop' = "init"
    /\ UNCHANGED << registry, allowed, nsgtVars, torchVars >>

SpecBase == InitBase /\ [][ConstructBase]_vars

\* ------------------------------------------ TorchNSGT / TorchINSGT
ArgsTorch ==
    { [scale |-> "cqlog", fbins |-> 12, fmin |-> 33, chunk_N |-> n, fmax |-> 22050,
       gamma |-> 25, matrixform |-> mf, fs |-> 44100, device |-> "cpu", win |-> w] :
         n \in 1..MaxN, mf \in {"ragged", "zeropad", "nearest"},
         w \in SampleWindows(MaxBandsM) }

\* the wrappers share one constructed NSGTBase
InitTorch ==
    /\ InitNSGT
    /\ tuplesOk = TRUE
    /\ registry = {"cqlog", "vqlog", "mel"}
    /\ allowed = {"ragged", "zeropad", "nearest"}
    /\ bargs \in ArgsTorch
    /\ base = NSGTBase_init(bargs, registry, allowed).self
    /\ berr = NoErr
    /\ bop = "init"
    /\ TorchIdle

\* encoder(x), x of shape (S, C, T)
TorchForward(S, C, T) ==
    /\ LET r == TorchNSGT_forward(InputTensor(S, C, T), base, tuplesOk)
       IN  trows' = r.rows /\ tout' = r.ret
    /\ tin' = InputTensor(S, C, T)
    /\ ty' = NoValue
    /\ top' = "forward"
    /\ UNCHANGED << nsgtVars, baseVars >>

\* decoder(X, length) on what the encoder returned, length the input's T
TorchInverse ==
    /\ top = "forward"
    /\ tout.tag # "raised"
    /\ ty' = TorchINSGT_forward(tout, tin.shape[3], base)
    /\ top' = "inverse"
    /\ UNCHANGED << nsgtVars, baseVars, tin, trows, tout >>

NextTorch ==
    \/ \E S \in 1..MaxBatch, C \in 1..MaxChannels, T \in 1..MaxT : TorchForward(S, C, T)
    \/ TorchInverse

SpecTorch == InitTorch /\ [][NextTorch]_vars

\* ------------------------------------------------- claims on the NSGT
\* The bands with Python numbers r <= k < L div 2 + 1 - r (all bands when
\* the transform is not real), as the claims state the active band set.
ClaimedActive(real, r, L) ==
    IF real THEN { k \in 0..(L - 1) : r <= k /\ k < L \div 2 + 1 - r } ELSE 0..(L - 1)

\* C1: backward(forward(x)) returns x, for every configuration: forward
\* returns coefficients, and backward returns x for them.
C1_RoundTrip ==
    /\ op = "forward" => coef.tag # "raised"
    /\ op = "backward" => rec = sig

\* C2: a constructor call with fs <= 0, Ls <= 0 or reducedform outside
\* {0,1,2} ends in the assertion error with no attribute set and no array
\* built; every other call passes the three checks.
C2_ChecksFirst ==
    op # "none" =>
        IF args.fs <= 0 \/ args.Ls <= 0 \/ args.reducedform \notin {0, 1, 2}
        THEN err.type = "AssertionError" /\ DOMAIN nsgt = {} /\ built = {}
        ELSE err.type # "AssertionError"

C2_Witness ==
    /\ op = "init" /\ args.fs > 0 /\ args.Ls > 0 /\ args.reducedform = 3
    /\ err.type = "AssertionError"

\* C3: in real mode the active band set is [r, L div 2 + 1 - r) and
\* fbins_actual is the number of bands in it.
C3_FbinsIsBandCount ==
    (Constructed /\ args.real) =>
        LET act == ClaimedActive(TRUE, args.reducedform, Len(nsgt.g))
        IN  /\ { ActiveBands(nsgt)[i] : i \in 1..Len(ActiveBands(nsgt)) } = act
            /\ nsgt.fbins_actual = Some(Cardinality(act))

\* C4: in matrix form every M[k] is one common value, the maximum of the
\* original M over the active band set, equal to ncoefs, and ncoefs is a
\* multiple of every M[k].
C4_CommonLength ==
    (Constructed /\ args.matrixform) =>
        LET L    == Len(nsgt.M)
            orig == args.win.M
            act  == ClaimedActive(args.real, args.reducedform, L)
            v    == nsgt.M[1]
        IN  /\ \A k \in 1..L : nsgt.M[k] = v
            /\ \A k \in act : orig[k + 1] <= v
            /\ \E k \in act : orig[k + 1] = v
            /\ v = nsgt.ncoefs
            /\ \A k \in act : CeilDiv(args.win.glen[k + 1], orig[k + 1]) * orig[k + 1] <= nsgt.ncoefs
            /\ \E k \in act : CeilDiv(args.win.glen[k + 1], orig[k + 1]) * orig[k + 1] = nsgt.ncoefs
            /\ \A k \in 1..L : nsgt.ncoefs % nsgt.M[k] = 0

\* the shared state of the transform
Shared(o) == << o.g, o.M, o.wins, o.nn, o.gd, o.ncoefs, o.fbins_actual >>

\* C7: a forward or backward call leaves g, M, wins, nn, gd, ncoefs and
\* fbins_actual as they were.
C7_CallsKeepSharedState ==
    [][op' \in {"forward", "backward"} => Shared(nsgt') = Shared(nsgt)]_vars

C7_Witness ==
    /\ op = "backward" /\ rec = sig
    /\ Len(nsgt.g) > 2 /\ nsgt.real /\ Shared(nsgt) = Shared(NSGT_init(args).self)

\* C8: forward hands the engine the signal itself and returns the whole
\* bundle the engine produces for it, for either value of multichannel.
C8_WholeBundle ==
    op = "forward" => handed = sig /\ coef = Bundle(nsgt, sig)

\* C10: after _apply, g, wins and gd are all on the new device, which is
\* the recorded device, and M, nn, ncoefs and fbins_actual are unchanged.
C10_AllRelocated ==
    op = "apply" =>
        /\ \A k \in 1..Len(nsgt.g) :
              nsgt.g[k].dev = ctx /\ nsgt.wins[k].dev = ctx /\ nsgt.gd[k].dev = ctx
        /\ nsgt.device = ctx
        /\ LET o == NSGT_init(args).self
           IN  << nsgt.M, nsgt.nn, nsgt.ncoefs, nsgt.fbins_actual >>
                 = << o.M, o.nn, o.ncoefs, o.fbins_actual >>

\* --------------------------------------------- claims on the NSGTBase
\* C5: a scale name outside the registry is rejected with an error that
\* names the scale, with the hint toward cqlog exactly when the name is
\* 'oct', before a scale object or a transform is constructed; a name in
\* the registry is not rejected by this check.
C5_UnknownScale ==
    bop = "init" =>
        IF bargs.scale \notin registry
        THEN /\ berr.type = "ValueError"
             /\ berr.msg.text = "unsupported frequency scale"
             /\ berr.msg.scale = bargs.scale
             /\ (berr.msg.hint = "use cqlog instead of oct") <=> (bargs.scale = "oct")
             /\ base.scl = None
             /\ "nsgt" \notin DOMAIN base
        ELSE ~("msg" \in DOMAIN berr /\ berr.msg.text = "unsupported frequency scale")

C5_Witness ==
    /\ bop = "init" /\ bargs.scale = "oct" /\ "oct" \notin registry
    /\ berr.type = "ValueError" /\ berr.msg.hint = "use cqlog instead of oct"

\* C6: a matrixform outside the allowed forms is rejected with the
\* ValueError saying so, and no transform is constructed.
C6_UnsupportedMatrixform ==
    (bop = "init" /\ bargs.scale \in registry /\ bargs.matrixform \notin allowed) =>
        /\ berr.type = "ValueError"
        /\ "nsgt" \notin DOMAIN base

\* --------------------------------------------- claims on the wrappers
\* row r of a two-dimensional tensor
Row(x, r) == [j \in 1..x.shape[2] |-> x.data[(r - 1) * x.shape[2] + j]]

\* consecutive samples of one (sample, channel) pair from time t0 on,
\* zeros only after the last sample T (a row past the end is all zeros)
RowOfOnePair(row, T) ==
    \E s \in 1..MaxBatch, c \in 1..MaxChannels, t0 \in 1..(T + 1) :
        \A j \in 1..Len(row) :
            row[j] = IF t0 + j - 1 <= T THEN << s, c, t0 + j - 1 >> ELSE Zero

\* C9: the transform is handed rows of chunk_N samples, each of one
\* (sample, channel) pair and padded only after the last sample, and the
\* decoder called with length = T returns the input.
C9_ChunkRoundTrip ==
    /\ top \in {"forward", "inverse"} =>
          /\ trows.tag = "signal"
          /\ Len(trows.shape) = 2
          /\ trows.shape[2] = base.chunk_N
          /\ \A r \in 1..trows.shape[1] : RowOfOnePair(Row(trows, r), tin.shape[3])
    /\ top = "forward" => tout.tag # "raised"
    /\ top = "inverse" => ty = tin
====
